---- MODULE Spec2Model ----
(***************************************************************************)
(* generate_instagram_posts.py: the batch driver (main), the post          *)
(* assembler (process_product), slugify and the caption composer           *)
(* (generate_caption), as a state machine over the output directory.       *)
(*                                                                         *)
(* A Python str is a sequence of one-character strings; a text written to  *)
(* a file or used as a file name is the TLA+ string of those characters.   *)
(* A cell of a row is None (row.get on a column the table lacks), NaN      *)
(* (an empty cell as pandas.read_excel reads it), a str or an integer.     *)
(*                                                                         *)
(* An ASCII character (up to U+007F) is the one-character string of that   *)
(* character. A character above U+007F is the string of its name: "U+" and *)
(* its code point in upper-case hexadecimal digits, four at least          *)
(* ("U+00A0" is the no-break space, "U+212A" the Kelvin sign).             *)
(***************************************************************************)
EXTENDS Integers, Sequences, FiniteSets, TLC

VARIABLES
    excel_exists,      \* excel_path.exists()
    columns,           \* the column names of the table (df.columns)
    table,             \* the rows of the table, in table order (df)
    before,            \* the product directories under the output root before the run
    out_exists,        \* the output root exists
    fs,                \* product directory name -> its files
    pc,                \* position of the process
    row_idx,           \* index in table of the row being processed (0: none yet)
    image_urls,        \* process_product: the parsed URL list
    i,                 \* process_product: the loop index (0-based, as enumerate)
    downloaded_files,  \* process_product: the names of the files saved
    fetched,           \* this row's calls of requests.get: URL position, and saved or not
    processed          \* the indices of the rows process_product returned from

\* what the run is given; no step changes it
inputs == <<excel_exists, columns, table, before>>

vars == <<inputs, out_exists, fs, pc, row_idx,
          image_urls, i, downloaded_files, fetched, processed>>

-----------------------------------------------------------------------------
(* Bounds of the model *)

\* longest generated str (characters) in the slug and caption inputs
MaxLen == 2
\* most rows in a batch table
MaxRows == 2
\* most image URLs of a row in a batch table
MaxUrls == 2
\* most image URLs of the row in the long-URL-list inputs
MaxUrlsLong == 11

-----------------------------------------------------------------------------
(* Python values *)

None == [t |-> "None", s |-> <<>>, n |-> 0]

NaN == [t |-> "nan", s |-> <<>>, n |-> 0]

Str(s) == [t |-> "str", s |-> s, n |-> 0]

Num(n) == [t |-> "num", s |-> <<>>, n |-> n]

\* isinstance(v, str)
IsStr(v) == v.t = "str"

\* bool(v): None, '' and 0 are falsy; NaN is a non-zero float, so truthy
Truthy(v) ==
    CASE v.t = "None" -> FALSE
      [] v.t = "nan" -> TRUE
      [] v.t = "str" -> v.s # <<>>
      [] v.t = "num" -> v.n # 0

\* pd.isna(v) on a scalar
isna(v) == v.t \in {"None", "nan"}

Range(s) == {s[k] : k \in DOMAIN s}

DigitChars == <<"0", "1", "2", "3", "4", "5", "6", "7", "8", "9">>

UpperChars == <<"A", "B", "C", "D", "E", "F", "G", "H", "I", "J", "K", "L", "M",
                "N", "O", "P", "Q", "R", "S", "T", "U", "V", "W", "X", "Y", "Z">>

LowerChars == <<"a", "b", "c", "d", "e", "f", "g", "h", "i", "j", "k", "l", "m",
                "n", "o", "p", "q", "r", "s", "t", "u", "v", "w", "x", "y", "z">>

\* the ASCII characters c with c.isspace()
AsciiWhitespace ==
    {"\t", "\n", "", "\f", "\r",        \* U+0009 .. U+000D
     "", "", "", "",          \* U+001C .. U+001F
     " "}

\* the characters above U+007F with c.isspace()
UnicodeWhitespace ==
    {"U+0085", "U+00A0", "U+1680", "U+2000", "U+2001", "U+2002", "U+2003",
     "U+2004", "U+2005", "U+2006", "U+2007", "U+2008", "U+2009", "U+200A",
     "U+2028", "U+2029", "U+202F", "U+205F", "U+3000"}

\* the characters str.strip() removes: those c with c.isspace()
Whitespace == AsciiWhitespace \cup UnicodeWhitespace

\* the characters int() removes at the ends of a str: the whitespace above
\* U+007F, which it reads as a space, and the ASCII whitespace of C, which
\* leaves out U+001C .. U+001F
IntWhitespace ==
    {"\t", "\n", "", "\f", "\r", " "} \cup UnicodeWhitespace

HexChars == <<"0", "1", "2", "3", "4", "5", "6", "7", "8", "9",
              "A", "B", "C", "D", "E", "F">>

RECURSIVE hex_number(_)
\* the number written by a text of hexadecimal digits
hex_number(t) ==
    IF t = "" THEN 0
    ELSE 16 * hex_number(SubSeq(t, 1, Len(t) - 1))
            + ((CHOOSE k \in DOMAIN HexChars : HexChars[k] = SubSeq(t, Len(t), Len(t))) - 1)

\* ord(c) for a character c above U+007F
code_point(c) == hex_number(SubSeq(c, 3, Len(c)))

\* the digits zero above U+007F: each is followed by its digits one to nine
DecimalZeros ==
    {"U+0660", "U+06F0", "U+07C0", "U+0966", "U+09E6", "U+0A66",
     "U+0AE6", "U+0B66", "U+0BE6", "U+0C66", "U+0CE6", "U+0D66",
     "U+0DE6", "U+0E50", "U+0ED0", "U+0F20", "U+1040", "U+1090",
     "U+17E0", "U+1810", "U+1946", "U+19D0", "U+1A80", "U+1A90",
     "U+1B50", "U+1BB0", "U+1C40", "U+1C50", "U+A620", "U+A8D0",
     "U+A900", "U+A9D0", "U+A9F0", "U+AA50", "U+ABF0", "U+FF10",
     "U+104A0", "U+10D30", "U+11066", "U+110F0", "U+11136", "U+111D0",
     "U+112F0", "U+11450", "U+114D0", "U+11650", "U+116C0", "U+11730",
     "U+118E0", "U+11950", "U+11C50", "U+11D50", "U+11DA0", "U+16A60",
     "U+16AC0", "U+16B50", "U+1D7CE", "U+1D7D8", "U+1D7E2", "U+1D7EC",
     "U+1D7F6", "U+1E140", "U+1E2F0", "U+1E950", "U+1FBF0"}

\* c is a decimal digit for int(): 0-9, or one of another script
IsDecimal(c) ==
    \/ c \in Range(DigitChars)
    \/ /\ Len(c) > 1
       /\ \E z \in DecimalZeros : code_point(c) - code_point(z) \in 0..9

\* the value of a decimal digit
decimal(c) ==
    IF c \in Range(DigitChars)
    THEN (CHOOSE k \in DOMAIN DigitChars : DigitChars[k] = c) - 1
    ELSE LET z == CHOOSE z \in DecimalZeros : code_point(c) - code_point(z) \in 0..9
         IN  code_point(c) - code_point(z)

RECURSIVE IntChars(_)
\* str(n) for an integer n, as characters
IntChars(n) ==
    IF n < 0 THEN <<"-">> \o IntChars(0 - n)
    ELSE IF n < 10 THEN <<DigitChars[n + 1]>>
    ELSE IntChars(n \div 10) \o <<DigitChars[(n % 10) + 1]>>

\* str(v), f"{v}": the characters
PyChars(v) ==
    CASE v.t = "None" -> <<"N", "o", "n", "e">>
      [] v.t = "nan" -> <<"n", "a", "n">>
      [] v.t = "str" -> v.s
      [] v.t = "num" -> IntChars(v.n)

RECURSIVE Text(_)
\* the characters as one text, the two halves one after the other
Text(s) ==
    IF s = <<>> THEN ""
    ELSE IF Len(s) = 1 THEN s[1]
    ELSE Text(SubSeq(s, 1, Len(s) \div 2)) \o Text(SubSeq(s, (Len(s) \div 2) + 1, Len(s)))

\* row.get(col, default)
Get(row, col, default) == IF col \in columns THEN row[col] ELSE default

\* s.lstrip(cs): s from its first character that is not in cs
lstrip(s, cs) ==
    IF \A k \in DOMAIN s : s[k] \in cs THEN <<>>
    ELSE LET p == CHOOSE k \in DOMAIN s : s[k] \notin cs /\ \A j \in 1..(k - 1) : s[j] \in cs
         IN  SubSeq(s, p, Len(s))

\* s.rstrip(cs): s up to its last character that is not in cs
rstrip(s, cs) ==
    IF \A k \in DOMAIN s : s[k] \in cs THEN <<>>
    ELSE LET p == CHOOSE k \in DOMAIN s :
                      s[k] \notin cs /\ \A j \in (k + 1)..Len(s) : s[j] \in cs
         IN  SubSeq(s, 1, p)

\* s.strip(cs); s.strip() with cs = Whitespace
strip(s, cs) == rstrip(lstrip(s, cs), cs)

RECURSIVE split(_, _)
\* s.split(sep) for a one-character sep: always at least one piece. The
\* pieces of the two halves of s, the last piece of the first half and the
\* first piece of the second being one piece.
split(s, sep) ==
    IF \A k \in DOMAIN s : s[k] # sep THEN <<s>>
    ELSE IF Len(s) = 1 THEN <<<<>>, <<>>>>
    ELSE LET a == split(SubSeq(s, 1, Len(s) \div 2), sep)
             b == split(SubSeq(s, (Len(s) \div 2) + 1, Len(s)), sep)
         IN  SubSeq(a, 1, Len(a) - 1) \o <<a[Len(a)] \o b[1]>> \o Tail(b)

\* [x.strip() for x in s.split(sep) if x.strip()]
StrippedParts(s, sep) ==
    LET stripped == [k \in DOMAIN split(s, sep) |-> strip(split(s, sep)[k], Whitespace)]
    IN  SelectSeq(stripped, LAMBDA x : x # <<>>)

-----------------------------------------------------------------------------
(* slugify *)

\* the class [a-z0-9]
IsSlugChar(c) == c \in Range(LowerChars) \cup Range(DigitChars)

\* re.sub(r'[^a-z0-9]', '-', c.lower()) for one character c: c.lower() as the
\* re.sub of line 70 reads it, each character outside the class written as
\* the "-" that replaces its run. A-Z lower to a-z, the Kelvin sign U+212A to
\* k, and U+0130 to i and U+0307; c.lower() of every other character is one
\* character outside the class, whatever stands next to c in value.
lower_masked(c) ==
    IF \E k \in DOMAIN UpperChars : UpperChars[k] = c
    THEN <<LowerChars[CHOOSE k \in DOMAIN UpperChars : UpperChars[k] = c]>>
    ELSE IF c = "U+212A" THEN <<"k">>
    ELSE IF c = "U+0130" THEN <<"i", "-">>
    ELSE IF IsSlugChar(c) THEN <<c>>
    ELSE <<"-">>

RECURSIVE str_lower_masked(_)
\* re.sub(r'[^a-z0-9]', '-', value.lower()): it can be longer than value
str_lower_masked(value) ==
    IF value = <<>> THEN <<>>
    ELSE IF Len(value) = 1 THEN lower_masked(value[1])
    ELSE str_lower_masked(SubSeq(value, 1, Len(value) \div 2))
            \o str_lower_masked(SubSeq(value, (Len(value) \div 2) + 1, Len(value)))

RECURSIVE re_sub(_)
\* re.sub(r'[^a-z0-9]+', '-', value): each maximal run becomes one hyphen; the
\* same str for value.lower() and for str_lower_masked(value). A run that
\* goes over the middle of value gives one hyphen, not one for each half.
re_sub(value) ==
    IF value = <<>> THEN <<>>
    ELSE IF Len(value) = 1 THEN (IF IsSlugChar(value[1]) THEN value ELSE <<"-">>)
    ELSE LET a == re_sub(SubSeq(value, 1, Len(value) \div 2))
             b == re_sub(SubSeq(value, (Len(value) \div 2) + 1, Len(value)))
         IN  IF a[Len(a)] = "-" /\ b[1] = "-" THEN a \o Tail(b) ELSE a \o b

post == <<"p", "o", "s", "t">>

\* slugify(value) for a str value
slugify(value) ==
    LET stripped == strip(re_sub(str_lower_masked(value)), {"-"})
    IN  IF stripped = <<>> THEN post ELSE stripped

\* slugify(v) raises AttributeError (no .lower) unless v is a str
slugify_raises(v) == ~IsStr(v)
-----------------------------------------------------------------------------
(* generate_caption *)

\* the characters of a text of ASCII characters
Chars(t) == [k \in 1..Len(t) |-> SubSeq(t, k, k)]

\* the bullet character of the benefit lines
bullet == "U+2022"

default_disclosure == "As an Amazon Associate I earn from qualifying purchases."

\* "Check out {title}!" when title is truthy
title_lines(row) ==
    LET title == Get(row, "title", Str(<<>>))
    IN  IF Truthy(title)
        THEN <<Chars("Check out ") \o PyChars(title) \o <<"!">>>>
        ELSE <<>>

\* one bullet line for each non-empty stripped piece of benefits_pipe
benefit_lines(row) ==
    LET benefits == Get(row, "benefits_pipe", Str(<<>>))
        parts == StrippedParts(benefits.s, "|")
    IN  IF IsStr(benefits) /\ benefits.s # <<>>
        THEN [k \in DOMAIN parts |-> <<bullet, " ">> \o parts[k]]
        ELSE <<>>

price_lines(row) ==
    LET price == Get(row, "price", None)
    IN  IF Truthy(price) /\ ~isna(price)
        THEN <<Chars("Price: ") \o PyChars(price)>>
        ELSE <<>>

\* sys.get_int_max_str_digits(): the most digits int() takes from a str
int_max_str_digits == 4300

\* the literal of int(s): s without the whitespace at its ends
int_literal(s) == strip(s, IntWhitespace)

\* the digits and underscores of the literal, after its sign
int_body(s) ==
    LET t == int_literal(s)
    IN  IF t # <<>> /\ Head(t) \in {"+", "-"} THEN Tail(t) ELSE t

\* the digits of the literal, leading zeros included
int_digits(s) == SelectSeq(int_body(s), IsDecimal)

\* int(s) raises ValueError for a str s: the literal is not an optional sign
\* and decimal digits, with single underscores between digits only, or it has
\* more than int_max_str_digits digits
int_raises(s) ==
    LET b == int_body(s)
    IN  \/ b = <<>>
        \/ \E k \in DOMAIN b : ~IsDecimal(b[k]) /\ b[k] # "_"
        \/ b[1] = "_"
        \/ b[Len(b)] = "_"
        \/ \E k \in 1..(Len(b) - 1) : b[k] = "_" /\ b[k + 1] = "_"
        \/ Len(int_digits(s)) > int_max_str_digits

\* str(int(s)) for a str s that int accepts: the digits as 0-9 without the
\* leading zeros, after "-" for a negative number
int_str(s) ==
    LET ds == int_digits(s)
        ascii == [k \in DOMAIN ds |-> DigitChars[decimal(ds[k]) + 1]]
        significant == lstrip(ascii, {"0"})
    IN  IF significant = <<>> THEN <<"0">>
        ELSE IF Head(int_literal(s)) = "-" THEN <<"-">> \o significant
        ELSE significant

\* f"{int(v)}" for a cell that is an integer or a str
int_chars(v) == IF IsStr(v) THEN int_str(v.s) ELSE IntChars(v.n)

\* review_count is present: truthy and not a missing value
has_review_count(row) ==
    LET review_count == Get(row, "review_count", None)
    IN  Truthy(review_count) /\ ~isna(review_count)

\* rating is present: truthy and not a missing value
has_rating(row) ==
    LET rating == Get(row, "rating", None)
    IN  Truthy(rating) /\ ~isna(rating)

\* generate_caption raises: int(review_count) at line 98 is reached with a str
\* that int does not accept
generate_caption_raises(row) ==
    LET review_count == Get(row, "review_count", None)
    IN  /\ has_rating(row)
        /\ has_review_count(row)
        /\ IsStr(review_count)
        /\ int_raises(review_count.s)

\* the rating line, for a row on which generate_caption does not raise
rating_lines(row) ==
    LET rating == Get(row, "rating", None)
        review_count == Get(row, "review_count", None)
        rc_str == IF has_review_count(row)
                  THEN Chars(" (") \o int_chars(review_count) \o Chars(" reviews)")
                  ELSE <<>>
    IN  IF has_rating(row)
        THEN <<Chars("Rating: ") \o PyChars(rating) \o Chars("/5") \o rc_str>>
        ELSE <<>>

cta_lines(row) ==
    LET cta_override == Get(row, "cta_override", Str(<<>>))
        affiliate_url == Get(row, "affiliate_url", Str(<<>>))
        cta == IF IsStr(cta_override) /\ cta_override.s # <<>>
               THEN cta_override.s
               ELSE IF Truthy(affiliate_url)
                    THEN Chars("Learn more and buy here: ") \o PyChars(affiliate_url)
                    ELSE <<>>
    IN  IF cta # <<>> THEN <<cta>> ELSE <<>>

RECURSIVE join(_, _)
\* sep.join(lines)
join(sep, lines) ==
    IF lines = <<>> THEN <<>>
    ELSE IF Len(lines) = 1 THEN lines[1]
    ELSE join(sep, SubSeq(lines, 1, Len(lines) \div 2)) \o sep
            \o join(sep, SubSeq(lines, (Len(lines) \div 2) + 1, Len(lines)))

hashtag_lines(row) ==
    LET hashtags == Get(row, "hashtags_comma", Str(<<>>))
        parts == StrippedParts(hashtags.s, ",")
        tagged == [k \in DOMAIN parts |->
                      IF Head(parts[k]) = "#" THEN parts[k] ELSE <<"#">> \o parts[k]]
    IN  IF IsStr(hashtags) /\ hashtags.s # <<>> /\ parts # <<>>
        THEN <<join(<<" ">>, tagged)>>
        ELSE <<>>

\* mutant of disclosure_line: the override tested for truth only, as affiliate_url is
disclosure_line_truthy(row) ==
    LET disclosure == Get(row, "disclosure_override", Str(<<>>))
    IN  IF ~Truthy(disclosure)
        THEN Chars(default_disclosure)
        ELSE PyChars(disclosure)

disclosure_line(row) ==
    LET disclosure == Get(row, "disclosure_override", Str(<<>>))
    IN  IF ~(IsStr(disclosure) /\ disclosure.s # <<>>)
        THEN Chars(default_disclosure)
        ELSE disclosure.s

\* the list `lines` of generate_caption before the join
caption_lines(row) ==
    title_lines(row) \o benefit_lines(row) \o price_lines(row) \o rating_lines(row)
        \o cta_lines(row) \o hashtag_lines(row) \o <<disclosure_line(row)>>

\* the characters of the caption, for a row on which generate_caption does
\* not raise
generate_caption(row) == join(<<"\n">>, caption_lines(row))
-----------------------------------------------------------------------------
(* generate_alt_text *)

product == <<"p", "r", "o", "d", "u", "c", "t">>

\* the characters of the alt text. "Image of " starts with no whitespace and
\* the rest holds a ".", so the final strip() only removes whitespace at the end
generate_alt_text(row) ==
    LET alt_override == Get(row, "alt_text_override", Str(<<>>))
        got == Get(row, "title", Str(<<>>))
        title == IF Truthy(got) THEN got ELSE Str(product)
        short_desc == Get(row, "short_desc", Str(<<>>))
        desc == IF IsStr(short_desc) /\ short_desc.s # <<>>
                THEN split(strip(short_desc.s, Whitespace), ".")[1]
                ELSE <<>>
    IN  IF IsStr(alt_override) /\ alt_override.s # <<>>
        THEN alt_override.s
        ELSE Chars("Image of ")
                \o rstrip(PyChars(title) \o <<".", " ">> \o desc, Whitespace)

-----------------------------------------------------------------------------
(* process_product: the names and the errors that leave it. The file system  *)
(* is one that accepts every valid name and has room for every file.         *)

\* row.get('product_id'), falsy when the column is missing, '' or 0
product_id_cell(row) == Get(row, "product_id", None)

title_or_post(row) == Get(row, "title", Str(post))

\* line 134 raises when the identifier is falsy and the title is not a str
product_id_raises(row) ==
    ~Truthy(product_id_cell(row)) /\ slugify_raises(title_or_post(row))

\* product_id = str(row.get('product_id') or slugify(row.get('title', 'post')))
product_id(row) ==
    IF Truthy(product_id_cell(row))
    THEN PyChars(product_id_cell(row))
    ELSE slugify(title_or_post(row).s)

\* the name of the product directory under the output root
product_slug(row) == Text(slugify(product_id(row)))

\* the longest file name the file system takes, in bytes (a slug is ASCII)
NAME_MAX == 255

\* images_path.mkdir at line 138 raises OSError: the name of the product
\* directory is too long, and no directory is made
mkdir_raises(row) == Len(slugify(product_id(row))) > NAME_MAX

\* a lone surrogate, U+D800 .. U+DFFF
IsSurrogate(c) ==
    Len(c) > 1 /\ code_point(c) \in hex_number("D800")..hex_number("DFFF")

\* f.write(text) raises UnicodeEncodeError on a file opened with
\* encoding='utf-8': the codec encodes no surrogate
write_raises(text) == \E k \in DOMAIN text : IsSurrogate(text[k])

\* process_product(row, out_dir) raises: at line 134, 138, 160 (generate_caption),
\* 162 or 166 (f.write)
process_product_raises(row) ==
    \/ product_id_raises(row)
    \/ mkdir_raises(row)
    \/ generate_caption_raises(row)
    \/ write_raises(generate_caption(row))
    \/ write_raises(generate_alt_text(row))

\* image_urls of process_product
parse_image_urls(row) ==
    LET imgs_field == Get(row, "image_urls_comma", Str(<<>>))
    IN  IF IsStr(imgs_field) /\ imgs_field.s # <<>>
        THEN StrippedParts(imgs_field.s, ",")
        ELSE <<>>

\* mutant of MaxImages: the loop breaks at i > 10
MaxImages_off_by_one == 10 + 1

\* the loop breaks at i >= 10
MaxImages == 10

\* fname = f"image_{i+1}.jpg" for the 0-based loop index
fname(idx) == "image_" \o Text(IntChars(idx + 1)) \o ".jpg"

-----------------------------------------------------------------------------
(* The output directory: fs maps the name of each product directory that    *)
(* exists to its files. caption, alt_text and meta are <<>> while the file  *)
(* is absent and <<content>> once it exists: the content of a text file is  *)
(* its text, "" from open(..., 'w') until the write.                        *)

NoDirs == [d \in {} |-> {}]

NewDir == [images |-> {}, caption |-> <<>>, alt_text |-> <<>>, meta |-> <<>>]

\* meta.json from open(..., 'w') until json.dump: it names no image
meta_opened == [product_id |-> "", images |-> <<>>]

Dirs == DOMAIN fs

\* the directory being written, and the row being processed
row == table[row_idx]

prod_path == product_slug(row)

continue_loop == i < Len(image_urls) /\ i < MaxImages

-----------------------------------------------------------------------------
(* main *)

\* mutant of MainMissingInput: out_path.mkdir moved above the existence check
MainMissingInput_mkdir_first ==
    /\ pc = "main"
    /\ ~excel_exists
    /\ out_exists' = TRUE
    /\ pc' = "input_missing"
    /\ UNCHANGED <<inputs, fs, row_idx,
                   image_urls, i, downloaded_files, fetched, processed>>

\* excel_path.exists() is false: FileNotFoundError, before out_path.mkdir
MainMissingInput ==
    /\ pc = "main"
    /\ ~excel_exists
    /\ pc' = "input_missing"
    /\ UNCHANGED <<inputs, out_exists, fs, row_idx,
                   image_urls, i, downloaded_files, fetched, processed>>

\* out_path.mkdir(parents=True, exist_ok=True); df = pd.read_excel(excel_path)
MainStart ==
    /\ pc = "main"
    /\ excel_exists
    /\ out_exists' = TRUE
    /\ pc' = "iterrows"
    /\ UNCHANGED <<inputs, fs, row_idx,
                   image_urls, i, downloaded_files, fetched, processed>>

\* the for loop of main is exhausted
MainDone ==
    /\ pc = "iterrows"
    /\ row_idx = Len(table)
    /\ pc' = "done"
    /\ UNCHANGED <<inputs, out_exists, fs, row_idx,
                   image_urls, i, downloaded_files, fetched, processed>>

-----------------------------------------------------------------------------
(* process_product. main has no handler: an exception that leaves            *)
(* process_product ends the process (pc = "row_error").                      *)

\* process_product raises at line 134
RowRaises ==
    /\ pc = "iterrows"
    /\ row_idx < Len(table)
    /\ product_id_raises(table[row_idx + 1])
    /\ row_idx' = row_idx + 1
    /\ fetched' = <<>>
    /\ pc' = "row_error"
    /\ UNCHANGED <<inputs, out_exists, fs,
                   image_urls, i, downloaded_files, processed>>

\* images_path.mkdir raises at line 138
MkdirRaises ==
    /\ pc = "iterrows"
    /\ row_idx < Len(table)
    /\ ~product_id_raises(table[row_idx + 1])
    /\ mkdir_raises(table[row_idx + 1])
    /\ row_idx' = row_idx + 1
    /\ fetched' = <<>>
    /\ pc' = "row_error"
    /\ UNCHANGED <<inputs, out_exists, fs,
                   image_urls, i, downloaded_files, processed>>

\* lines 134-144: the names, images_path.mkdir(parents=True, exist_ok=True)
\* and the URL list
RowBegin ==
    /\ pc = "iterrows"
    /\ row_idx < Len(table)
    /\ ~product_id_raises(table[row_idx + 1])
    /\ ~mkdir_raises(table[row_idx + 1])
    /\ row_idx' = row_idx + 1
    /\ LET slug == product_slug(table[row_idx + 1])
       IN  fs' = IF slug \in Dirs THEN fs ELSE (slug :> NewDir) @@ fs
    /\ image_urls' = parse_image_urls(table[row_idx + 1])
    /\ i' = 0
    /\ downloaded_files' = <<>>
    /\ fetched' = <<>>
    /\ pc' = "images"
    /\ UNCHANGED <<inputs, out_exists, processed>>

\* one pass of the loop body in which get, raise_for_status, open, convert and
\* save all succeed. BytesIO is bound only when the file runs as a script
\* (line 197); in an importing process line 151 raises NameError, the handler
\* catches it, and every pass is FetchFailed.
FetchSaved ==
    /\ pc = "images"
    /\ continue_loop
    /\ fetched' = Append(fetched, [pos |-> i + 1, saved |-> TRUE])
    /\ fs' = [fs EXCEPT ![prod_path].images = @ \cup {fname(i)}]
    /\ downloaded_files' = Append(downloaded_files, fname(i))
    /\ i' = i + 1
    /\ UNCHANGED <<inputs, out_exists, pc, row_idx,
                   image_urls, processed>>

\* mutant of FetchFailed: the exception is not caught and leaves process_product
FetchFailed_uncaught ==
    /\ pc = "images"
    /\ continue_loop
    /\ fetched' = Append(fetched, [pos |-> i + 1, saved |-> FALSE])
    /\ pc' = "row_error"
    /\ UNCHANGED <<inputs, out_exists, fs, row_idx,
                   image_urls, i, downloaded_files, processed>>

\* one pass of the loop body in which the fetch errors or times out, the
\* status is not a success or the bytes do not decode: except Exception: continue
FetchFailed ==
    /\ pc = "images"
    /\ continue_loop
    /\ fetched' = Append(fetched, [pos |-> i + 1, saved |-> FALSE])
    /\ i' = i + 1
    /\ UNCHANGED <<inputs, out_exists, fs, pc, row_idx,
                   image_urls, downloaded_files, processed>>

\* mutant of ImagesDone: meta.json is written before the two texts
ImagesDone_meta_first ==
    /\ pc = "images"
    /\ ~continue_loop
    /\ pc' = "meta"
    /\ UNCHANGED <<inputs, out_exists, fs, row_idx,
                   image_urls, i, downloaded_files, fetched, processed>>

\* the list is exhausted, or i >= 10: break
ImagesDone ==
    /\ pc = "images"
    /\ ~continue_loop
    /\ pc' = "caption"
    /\ UNCHANGED <<inputs, out_exists, fs, row_idx,
                   image_urls, i, downloaded_files, fetched, processed>>

\* generate_caption(row) raises at line 160, before caption.txt is opened:
\* the images stay and no text is written
CaptionRaises ==
    /\ pc = "caption"
    /\ generate_caption_raises(row)
    /\ pc' = "row_error"
    /\ UNCHANGED <<inputs, out_exists, fs, row_idx,
                   image_urls, i, downloaded_files, fetched, processed>>

\* lines 160-161: the caption is composed and caption.txt opened for writing,
\* which creates it or empties it
OpenCaption ==
    /\ pc = "caption"
    /\ ~generate_caption_raises(row)
    /\ fs' = [fs EXCEPT ![prod_path].caption = <<"">>]
    /\ pc' = "caption_write"
    /\ UNCHANGED <<inputs, out_exists, row_idx,
                   image_urls, i, downloaded_files, fetched, processed>>

\* f.write(caption) raises at line 162: caption.txt stays empty
WriteCaptionRaises ==
    /\ pc = "caption_write"
    /\ write_raises(generate_caption(row))
    /\ pc' = "row_error"
    /\ UNCHANGED <<inputs, out_exists, fs, row_idx,
                   image_urls, i, downloaded_files, fetched, processed>>

\* line 162 and the end of the with block: the caption is in the file
WriteCaption ==
    /\ pc = "caption_write"
    /\ ~write_raises(generate_caption(row))
    /\ fs' = [fs EXCEPT ![prod_path].caption = <<Text(generate_caption(row))>>]
    /\ pc' = "alt_text"
    /\ UNCHANGED <<inputs, out_exists, row_idx,
                   image_urls, i, downloaded_files, fetched, processed>>

\* lines 164-165: the alt text is composed and alt_text.txt opened for writing
OpenAltText ==
    /\ pc = "alt_text"
    /\ fs' = [fs EXCEPT ![prod_path].alt_text = <<"">>]
    /\ pc' = "alt_text_write"
    /\ UNCHANGED <<inputs, out_exists, row_idx,
                   image_urls, i, downloaded_files, fetched, processed>>

\* f.write(alt_text) raises at line 166: alt_text.txt stays empty
WriteAltTextRaises ==
    /\ pc = "alt_text_write"
    /\ write_raises(generate_alt_text(row))
    /\ pc' = "row_error"
    /\ UNCHANGED <<inputs, out_exists, fs, row_idx,
                   image_urls, i, downloaded_files, fetched, processed>>

\* line 166 and the end of the with block: the alt text is in the file
WriteAltText ==
    /\ pc = "alt_text_write"
    /\ ~write_raises(generate_alt_text(row))
    /\ fs' = [fs EXCEPT ![prod_path].alt_text = <<Text(generate_alt_text(row))>>]
    /\ pc' = "meta"
    /\ UNCHANGED <<inputs, out_exists, row_idx,
                   image_urls, i, downloaded_files, fetched, processed>>

\* the record of meta.json (its fields that name the bundle)
meta_record == [product_id |-> Text(product_id(row)), images |-> downloaded_files]

\* lines 167-177: meta.json opened for writing. json.dump escapes every
\* character that is not ASCII, so its write does not raise.
OpenMeta ==
    /\ pc = "meta"
    /\ fs' = [fs EXCEPT ![prod_path].meta = <<meta_opened>>]
    /\ pc' = "meta_write"
    /\ UNCHANGED <<inputs, out_exists, row_idx,
                   image_urls, i, downloaded_files, fetched, processed>>

\* json.dump(meta, f); process_product returns and main takes the next row
WriteMeta ==
    /\ pc = "meta_write"
    /\ fs' = [fs EXCEPT ![prod_path].meta = <<meta_record>>]
    /\ processed' = Append(processed, row_idx)
    /\ pc' = "iterrows"
    /\ UNCHANGED <<inputs, out_exists, row_idx,
                   image_urls, i, downloaded_files, fetched>>

Next ==
    \/ MainMissingInput
    \/ MainStart
    \/ MainDone
    \/ RowRaises
    \/ MkdirRaises
    \/ RowBegin
    \/ FetchSaved
    \/ FetchFailed
    \/ ImagesDone
    \/ CaptionRaises
    \/ OpenCaption
    \/ WriteCaptionRaises
    \/ WriteCaption
    \/ OpenAltText
    \/ WriteAltTextRaises
    \/ WriteAltText
    \/ OpenMeta
    \/ WriteMeta
-----------------------------------------------------------------------------
(* Inputs *)

AllColumns ==
    {"product_id", "title", "short_desc", "benefits_pipe", "affiliate_url",
     "image_urls_comma", "price", "rating", "review_count", "hashtags_comma",
     "cta_override", "disclosure_override", "alt_text_override"}

\* a row of empty cells
EmptyRow == [c \in AllColumns |-> NaN]

RECURSIVE UrlChars(_)
\* a comma-separated list of n URLs
UrlChars(n) == IF n = 1 THEN <<"u">> ELSE <<"u", ",">> \o UrlChars(n - 1)

UrlField(n) == IF n = 0 THEN NaN ELSE Str(UrlChars(n))

\* the tables of at most n rows drawn from rows
Tables(rows, n) == UNION {[1..k -> rows] : k \in 0..n}

\* the process before main runs
AtStart ==
    /\ fs = before
    /\ pc = "main"
    /\ row_idx = 0
    /\ image_urls = <<>>
    /\ i = 0
    /\ downloaded_files = <<>>
    /\ fetched = <<>>
    /\ processed = <<>>

\* a batch row: the identifier and the title are the same cell value
BatchRow(key, n) ==
    [EmptyRow EXCEPT !.product_id = key, !.title = key, !.image_urls_comma = UrlField(n)]

\* a row whose slug is one character too long for a directory name
LongNameRow == BatchRow(Str([k \in 1..(NAME_MAX + 1) |-> "a"]), 1)

\* a row with a rating and a review count that is not a number: the images are
\* fetched and generate_caption raises
UncountedRow ==
    [BatchRow(Str(<<"b">>), 1) EXCEPT !.rating = Num(4), !.review_count = Str(<<"x">>)]

\* a row with a surrogate in the title: the write of the caption raises
SurrogateTitleRow ==
    [BatchRow(Str(<<"c">>), 1) EXCEPT !.title = Str(<<"W", "U+D800">>)]

\* a row with a surrogate in the description: the write of the alt text raises
SurrogateDescRow ==
    [BatchRow(Str(<<"d">>), 1) EXCEPT !.short_desc = Str(<<"U+DFFF", ".">>)]

\* the rows on which process_product raises, one for each line that can
ErrorRows == {LongNameRow, UncountedRow, SurrogateTitleRow, SurrogateDescRow}

\* rows "a" of up to MaxUrls URLs, and rows "A" (the same slug) and rows with
\* an empty identifier and title of no or one URL
BatchRows ==
    {BatchRow(Str(<<"a">>), n) : n \in 0..MaxUrls}
        \cup {BatchRow(key, n) : key \in {Str(<<"A">>), NaN}, n \in 0..1}

\* a row on which process_product raises, alone or before the row "a"
ErrorTables ==
    {<<e>> \o t : e \in ErrorRows, t \in Tables({BatchRow(Str(<<"a">>), 1)}, 1)}

\* what an earlier run over the row "a" with MaxUrls images, all saved, left
EarlierRun ==
    LET r == BatchRow(Str(<<"a">>), MaxUrls)
    IN  "a" :> [images |-> {fname(k) : k \in 0..(MaxUrls - 1)},
                caption |-> <<Text(generate_caption(r))>>,
                alt_text |-> <<Text(generate_alt_text(r))>>,
                meta |-> <<[product_id |-> "a",
                            images |-> [k \in 1..MaxUrls |-> fname(k - 1)]]>>]

\* batches: the table with or without a product_id column, over an output root
\* that is absent or left by an earlier run
Init ==
    /\ excel_exists \in BOOLEAN
    /\ columns \in {AllColumns, AllColumns \ {"product_id"}}
    /\ table \in Tables(BatchRows, MaxRows) \cup ErrorTables
    /\ \/ out_exists = FALSE /\ before = NoDirs
       \/ out_exists = TRUE /\ before = EarlierRun
    /\ AtStart

Spec == Init /\ [][Next]_vars
-----------------------------------------------------------------------------
(* Properties of a batch run (Spec) *)

\* the file name of the image at 1-based position p of the URL list
ImageName(p) == "image_" \o Text(IntChars(p)) \o ".jpg"

\* this row's calls of requests.get that ended in a saved file
Saved == SelectSeq(fetched, LAMBDA f : f.saved)

InRow ==
    pc \in {"images", "caption", "caption_write", "alt_text", "alt_text_write",
            "meta", "meta_write"}

AfterImages ==
    pc \in {"caption", "caption_write", "alt_text", "alt_text_write",
            "meta", "meta_write"}

Min(a, b) == IF a < b THEN a ELSE b

\* process_product has just returned from the row at row_idx
Returned == pc = "iterrows" /\ processed # <<>> /\ processed[Len(processed)] = row_idx

\* C1: after the image loop the emitted file names are image_1 .. image_K,
\* K the number of URLs that succeeded, whichever URLs failed.
C1_ContiguousNumbering ==
    AfterImages => downloaded_files = [k \in 1..Len(Saved) |-> ImageName(k)]

\* C2: once the batch run has completed, in every product directory the images
\* array of meta.json is exactly the set of files under images/.
C2_MetaMatchesDisk ==
    pc = "done" =>
        \A d \in Dirs :
            /\ fs[d].meta # <<>>
            /\ Range(fs[d].meta[1].images) = fs[d].images

\* C3: a failed fetch never ends the row. No step of the image loop leaves
\* process_product: each goes on with the loop or to the caption. When the
\* loop ends every one of the first 10 URLs has been tried, in order. And
\* when process_product returns, caption.txt, alt_text.txt and meta.json of
\* the row are written, meta.json naming the files saved.
C3_FetchFailuresIsolated ==
    [][/\ pc = "images" => pc' \in {"images", "caption"}
       /\ (pc = "images" /\ pc' = "caption") =>
              [k \in DOMAIN fetched |-> fetched[k].pos]
                  = [k \in 1..Min(Len(image_urls), MaxImages) |-> k]
       /\ (pc = "meta_write" /\ pc' = "iterrows") =>
              LET d == fs'[prod_path]
              IN  /\ d.caption = <<Text(generate_caption(row))>>
                  /\ d.alt_text = <<Text(generate_alt_text(row))>>
                  /\ d.meta = <<[product_id |-> Text(product_id(row)),
                                 images |-> downloaded_files]>>
                  /\ processed' = Append(processed, row_idx)]_vars

\* every URL of a row with two or more URLs failed and the row's bundle is
\* written, into a directory that did not exist before
C3_Witness ==
    /\ Returned
    /\ before = NoDirs
    /\ Len(fetched) >= 2
    /\ \A k \in DOMAIN fetched : ~fetched[k].saved
    /\ fs[product_slug(table[row_idx])].meta = <<[product_id |-> "a", images |-> <<>>]>>
    /\ fs[product_slug(table[row_idx])].caption # <<>>
    /\ fs[product_slug(table[row_idx])].alt_text # <<>>

\* C4: an error raised while one row is processed does not stop the batch:
\* when main has ended, every row that does not itself raise has been processed.
C4_LaterRowsProcessed ==
    pc \in {"done", "row_error"} =>
        \A k \in 1..Len(table) :
            ~process_product_raises(table[k]) => k \in Range(processed)

\* C6: while the input file does not exist, no step creates the output root,
\* starts a row or writes a file; the only step is the abort.
C6_MissingInputAborts ==
    [][~excel_exists =>
          /\ pc' = "input_missing"
          /\ UNCHANGED <<out_exists, fs, row_idx, processed>>]_vars

\* main aborted on a missing input with rows to process and no output root
C6_Witness ==
    /\ pc = "input_missing"
    /\ table # <<>>
    /\ ~out_exists
    /\ fs = NoDirs

\* the rows that process_product makes a directory for have pairwise distinct
\* directories
DistinctSlugs ==
    \A j, k \in 1..Len(table) :
        (/\ j # k
         /\ ~product_id_raises(table[j]) /\ ~mkdir_raises(table[j])
         /\ ~product_id_raises(table[k]) /\ ~mkdir_raises(table[k]))
            => product_slug(table[j]) # product_slug(table[k])

\* C10: over an output root with no product directory at the start and rows
\* with pairwise distinct slugs, in every state a product directory holding
\* meta.json also holds caption.txt, alt_text.txt and every image file that
\* meta.json names.
C10_MetaImpliesBundle ==
    \/ \A d \in Dirs :
           fs[d].meta # <<>> =>
               /\ fs[d].caption # <<>>
               /\ fs[d].alt_text # <<>>
               /\ Range(fs[d].meta[1].images) \subseteq fs[d].images
    \/ ~(before = NoDirs /\ DistinctSlugs)

\* mid-row in the second of two rows with distinct slugs: the first directory
\* holds meta.json naming an image, the second holds images and no meta.json yet
C10_Witness ==
    /\ before = NoDirs
    /\ DistinctSlugs
    /\ pc = "alt_text"
    /\ row_idx = 2
    /\ downloaded_files # <<>>
    /\ fs[prod_path].meta = <<>>
    /\ \E d \in Dirs : fs[d].meta # <<>> /\ fs[d].meta[1].images # <<>>
-----------------------------------------------------------------------------
(* Rows with long URL lists (SpecLong) *)

\* one row of up to MaxUrlsLong URLs, over an absent output root
InitLong ==
    /\ excel_exists \in BOOLEAN
    /\ columns \in {AllColumns, AllColumns \ {"product_id"}}
    /\ table \in {<<BatchRow(key, n)>> : key \in {Str(<<"a">>), NaN}, n \in 0..MaxUrlsLong}
                    \cup {<<e>> : e \in ErrorRows}
    /\ out_exists = FALSE
    /\ before = NoDirs
    /\ AtStart

SpecLong == InitLong /\ [][Next]_vars

\* C9: only the first 10 URLs of the list are fetched, each at most once and
\* in order, and at most 10 image files are written for the row.
C9_FirstTenOnce ==
    InRow =>
        /\ \A k \in DOMAIN fetched :
               /\ fetched[k].pos <= 10
               /\ fetched[k].pos <= Len(image_urls)
        /\ \A j, k \in DOMAIN fetched : j # k => fetched[j].pos # fetched[k].pos
        /\ Len(downloaded_files) <= 10
        /\ Cardinality(fs[prod_path].images) <= 10

\* a row of more than 10 URLs, all fetches saved: the loop has ended after 10
C9_Witness ==
    /\ pc = "caption"
    /\ Len(image_urls) > 10
    /\ Len(fetched) = 10
    /\ Len(downloaded_files) = 10
    /\ Cardinality(fs[prod_path].images) = 10

-----------------------------------------------------------------------------
(* Identifier and title cells (SpecSlug) *)

RECURSIVE Strings(_, _)
\* the strs of at most n characters of cs
Strings(cs, n) ==
    IF n = 0 THEN {<<>>}
    ELSE Strings(cs, n - 1)
            \cup {Append(x, c) : x \in {y \in Strings(cs, n - 1) : Len(y) = n - 1}, c \in cs}

\* characters of the titles: of the class [a-z0-9], lowered into it (from one
\* character to one, and U+0130 to two), and outside it
SlugAlphabet == {"a", "B", "7", " ", "-", "U+212A", "U+0130"}

SlugRow(id, title, n) ==
    [EmptyRow EXCEPT !.product_id = id, !.title = title, !.image_urls_comma = UrlField(n)]

\* one row: the identifier an empty cell, '', 0, a number or a str; the title an
\* empty cell, a number or a str of at most MaxLen characters; the table with or
\* without the two columns
InitSlug ==
    /\ excel_exists \in BOOLEAN
    /\ columns \in {AllColumns, AllColumns \ {"product_id"},
                    AllColumns \ {"product_id", "title"}}
    /\ table \in {<<SlugRow(id, title, n)>> :
                    id \in {NaN, Str(<<>>), Num(0), Num(7), Str(<<"B", " ", "7">>)},
                    title \in {NaN, Num(7)}
                        \cup {Str(x) : x \in Strings(SlugAlphabet, MaxLen)},
                    n \in 0..1}
                    \cup {<<e>> : e \in ErrorRows}
    /\ out_exists = FALSE
    /\ before = NoDirs
    /\ AtStart

SpecSlug == InitSlug /\ [][Next]_vars

\* the cell of a column: None when the table lacks the column
Cell(r, col) == IF col \in columns THEN r[col] ELSE None

\* empty or absent: no column, an empty cell, or ''
Absent(v) == v = None \/ v = NaN \/ v = Str(<<>>)

\* C5: a record with an empty or absent identifier gets the directory
\* slugify(title) when its title is a non-empty str, and the directory "post"
\* when its title is empty or absent too.
C5_DirectoryFromTitle ==
    LET r == table[1]
        title == Cell(r, "title")
        expected == IF Absent(title) THEN "post" ELSE Text(slugify(title.s))
    IN  (row_idx = 1 /\ Absent(Cell(r, "product_id"))
            /\ (Absent(title) \/ IsStr(title))) =>
            /\ pc # "row_error"
            /\ InRow => prod_path = expected

-----------------------------------------------------------------------------
(* Caption fields (SpecCaption) *)

CaptionColumns ==
    {"title", "benefits_pipe", "price", "rating", "review_count", "affiliate_url",
     "hashtags_comma", "cta_override", "disclosure_override"}

\* rows over the patterns of present and absent caption fields
PresenceRows ==
    {[EmptyRow EXCEPT !.product_id = Str(<<"a">>), !.image_urls_comma = UrlField(1),
                      !.title = t, !.benefits_pipe = b, !.price = p, !.rating = r,
                      !.review_count = rc, !.cta_override = c, !.affiliate_url = a,
                      !.hashtags_comma = h, !.disclosure_override = d] :
        t \in {NaN, Str(<<>>), Str(<<"W">>)},
        b \in {NaN, Str(<<"F">>)},
        p \in {NaN, Num(9)},
        r \in {NaN, Num(4)},
        rc \in {NaN, Num(10), Str(<<"1", "0">>), Str(<<"U+0661", "U+0660">>),
                Str(<<"x">>)},
        c \in {NaN, Str(<<>>), Str(<<"B">>)},
        a \in {NaN, Str(<<>>), Str(<<"x">>)},
        h \in {NaN, Str(<<"d">>)},
        d \in {NaN, Str(<<>>), Str(<<"D">>)}}

\* rows over the texts of the two delimited fields
DelimitedRows ==
    {[EmptyRow EXCEPT !.product_id = Str(<<"a">>), !.image_urls_comma = UrlField(1),
                      !.title = Str(<<>>), !.affiliate_url = Str(<<>>),
                      !.benefits_pipe = Str(b), !.hashtags_comma = Str(h)] :
        b \in Strings({"F", "|", " ", "U+00A0"}, MaxLen),
        h \in Strings({"d", ",", "#"}, MaxLen)}

\* one row, the table with all columns, without product_id, or with few
\* columns; the rows of delimited texts in the table with all columns
InitCaption ==
    /\ excel_exists \in BOOLEAN
    /\ \/ /\ columns \in {AllColumns, AllColumns \ {"product_id"},
                          {"product_id", "title", "image_urls_comma",
                           "disclosure_override"},
                          {"product_id", "image_urls_comma"}}
          /\ table \in {<<r>> : r \in PresenceRows \cup ErrorRows}
       \/ /\ columns = AllColumns
          /\ table \in {<<r>> : r \in DelimitedRows}
    /\ out_exists = FALSE
    /\ before = NoDirs
    /\ AtStart

SpecCaption == InitCaption /\ [][Next]_vars

\* caption.txt of the row has been written
CaptionWritten ==
    /\ row_idx = 1
    /\ pc \in {"alt_text", "alt_text_write", "meta", "meta_write"} \/ Returned

\* the text of caption.txt of the row
CaptionText == fs[product_slug(table[1])].caption[1]

\* the disclosure line the record asks for
ExpectedDisclosure ==
    LET d == Cell(table[1], "disclosure_override")
    IN  IF IsStr(d) /\ d.s # <<>> THEN Text(d.s) ELSE default_disclosure

\* C7: with benefits, price, rating, affiliate_url, hashtags and the CTA
\* override all absent (no column, an empty cell, or ''), the caption is the
\* title line, if the title is present, followed by the disclosure line.
C7_AbsentFieldsTwoLines ==
    LET r == table[1]
        title == Cell(r, "title")
    IN  (/\ CaptionWritten
         /\ \A c \in {"benefits_pipe", "price", "rating", "affiliate_url",
                      "hashtags_comma", "cta_override"} : Absent(Cell(r, c))
         /\ (Absent(title) \/ IsStr(title))) =>
            CaptionText = IF Absent(title) THEN ExpectedDisclosure
                          ELSE "Check out " \o Text(title.s) \o "!\n" \o ExpectedDisclosure

\* C8: the caption ends with the disclosure line, the override when it is a
\* non-empty str and the fixed default otherwise; and it is the only line of
\* the caption of a record whose other caption fields are '' or missing columns.
C8_EndsWithDisclosure ==
    CaptionWritten =>
        LET lines == caption_lines(table[1])
            front == SubSeq(lines, 1, Len(lines) - 1)
        IN  /\ lines # <<>>
            /\ CaptionText = IF front = <<>> THEN ExpectedDisclosure
                             ELSE Text(join(<<"\n">>, front)) \o "\n" \o ExpectedDisclosure
            /\ (\A c \in CaptionColumns \ {"disclosure_override"} :
                    Cell(table[1], c) \in {None, Str(<<>>)})
                   => CaptionText = ExpectedDisclosure

\* a written caption of several lines that ends with the default disclosure
\* although the override cell is empty (NaN)
C8_Witness ==
    /\ CaptionWritten
    /\ Cell(table[1], "disclosure_override") = NaN
    /\ Cell(table[1], "cta_override") = Str(<<"B">>)
    /\ CaptionText = "Check out W!\nB\nAs an Amazon Associate I earn from qualifying purchases."

====
